---- MODULE Spec2Model ----
(***************************************************************************)
(* histolab: the random tile sampler of src/histolab/tiler.py.             *)
(*                                                                         *)
(* RandomTiler.__init__, the two memoized mask resolvers box_mask and      *)
(* box_mask_lvl, the rejection-sampling generator _random_tiles_generator  *)
(* and the driver extract are modelled as a state machine.  The generator  *)
(* is a coroutine: one action per loop iteration, cut at the yield.        *)
(*                                                                         *)
(* The collaborators whose code is not part of tiler.py (Slide, Tile, the  *)
(* helpers of histolab.util, numpy's random state) are modelled by what    *)
(* the specification says of them:                                         *)
(*   - a slide answers extract_tile deterministically per box: the first   *)
(*     answer for a box is free, later ones repeat it (resp);              *)
(*   - numpy's generator is a deterministic function of the seed and the   *)
(*     number of draws since seeding: the first draw at a position is      *)
(*     free, later draws at that position repeat it (stream);              *)
(*   - lru_cache is a least-recently-used memo keyed by slide.             *)
(***************************************************************************)
EXTENDS Integers, Sequences, FiniteSets, TLC

(***************************************************************************)
(* Bounds of the model.                                                    *)
(***************************************************************************)
\* n_tiles ranges over 0..MaxNTiles
MaxNTiles == 1
\* max_iter ranges over 0..MaxMaxIter
MaxMaxIter == 2
\* invalid-region discards explored per extract call
MaxDiscards == 1
\* successive extract calls on the tiler
MaxRuns == 2
\* capacity of each mask cache; stands for maxsize=100 (tiler.py lines 94, 118),
\* scaled down so that capacity + 1 slides stay enumerable
CacheCap == 2
\* direct box_mask / box_mask_lvl calls explored in SpecCache
MaxCalls == 5

\* level dimensions range over 1..MaxDim per axis in SpecScale
MaxDim == 4
\* sampled corners range over 0..MaxCoord per axis in SpecScale
MaxCoord == 3

\* successful extractions explored per extract call (max_iter = 0 never stops
\* on the attempt counter)
MaxAttempts == MaxMaxIter + 2
NumSlides == CacheCap + 1
Slides == 1..NumSlides
\* the slide handed to extract
TheSlide == 1

(***************************************************************************)
(* The synthetic slide: level 0 is 2x2 pixels, level 1 is 2x1 (w, h).      *)
(***************************************************************************)
Levels == {0, 1}

level_dimensions(level) == IF level = 0 THEN <<2, 2>> ELSE <<2, 1>>

dimensions == level_dimensions(0)

\* the pixels <<x, y>> of an image of size dim = <<w, h>>
Pixels(dim) == (0..(dim[1] - 1)) \X (0..(dim[2] - 1))

\* level-0 tissue masks a slide may have: none, one pixel, a diagonal
TissueMasks == { {}, {<<0, 0>>}, {<<0, 0>>, <<1, 1>>} }

Seeds == {7}

TileSize == <<1, 1>>

VARIABLES
    args,               \* the arguments given to RandomTiler(...)
    ctor,               \* "new" | "ok" | "error" (AssertionError)
    tiler,              \* the constructed tiler's attributes
    slideMask,          \* slide -> on-pixels of its biggest_tissue_box_mask
    resp,               \* box -> the slide's answer to extract_tile, once given
    stream,             \* the draws numpy makes after seed(tiler.seed), by position
    rngPos,             \* draws made since the generator was last seeded
    cacheBM,            \* box_mask's memo, least recently used first
    cacheLvl,           \* box_mask_lvl's memo, least recently used first
    nComputed,          \* slide -> level-0 masks computed so far
    nResized,           \* slide -> resize_mask calls so far
    pc,                 \* "idle" | "running" | "yielded" | "resume" | "done"
                        \*   | "returned" | "raised"
    iteration,          \* the generator's local
    valid_tile_counter, \* the generator's local
    cur,                \* the level-0 box of the tile just yielded
    enum_next,          \* enumerate's next index
    tiles_counter,      \* extract's local
    saved,              \* filenames given to tile.save in this extract call
    printed,            \* the count of the final message, -1 before it
    run,                \* extract calls made
    prevBoxes,          \* boxes saved by the previous extract call
    discards,           \* history: invalid-region discards of this call
    extracted,          \* history: successful extract_tile calls of this call
    nYielded,           \* history: tiles yielded in this call
    savedBoxes,         \* history: boxes yielded, in order
    lastStep,           \* history: what the last generator step did
    clock,              \* history: direct resolver calls made
    lastAccessBM,       \* history: slide -> clock of its last box_mask access
    lastAccessLvl,      \* history: slide -> clock of its last box_mask_lvl access
    lastCall,           \* history: the last direct resolver call
    scale,              \* a scale_coordinates round trip: its inputs and results
    mode                \* "trace": the histories are kept, within the bounds;
                        \*   "live": they are not, and runs are unbounded

tilerVars == <<args, ctor, tiler, slideMask>>
envVars == <<resp, stream, rngPos>>
cacheVars == <<cacheBM, cacheLvl, nComputed, nResized>>
genVars == <<pc, iteration, valid_tile_counter, cur, discards, extracted,
             nYielded, savedBoxes, lastStep>>
driverVars == <<enum_next, tiles_counter, saved, printed, run, prevBoxes>>
cacheHist == <<clock, lastAccessBM, lastAccessLvl, lastCall>>
scaleVars == <<scale>>
modeVars == <<mode>>
vars == <<tilerVars, envVars, cacheVars, genVars, driverVars, cacheHist,
          scaleVars, modeVars>>

\* a history counter: in mode "live" it stays at its bound
Count(n, cap) == IF mode = "live" /\ n >= cap THEN n ELSE n + 1

(***************************************************************************)
(* RandomTiler.__init__                                                    *)
(***************************************************************************)
ArgSets ==
    [tile_size : {TileSize}, n_tiles : 0..MaxNTiles, level : Levels,
     seed : Seeds, check_tissue : BOOLEAN, prefix : {""}, suffix : {".png"},
     max_iter : 0..MaxMaxIter]

NoTiler ==
    [tile_size |-> <<0, 0>>, n_tiles |-> -1, level |-> -1, seed |-> -1,
     check_tissue |-> FALSE, prefix |-> "", suffix |-> "", max_iter |-> -1]

\* the mutant: the check the wrong way round
InitAssertFlipped(max_iter, n_tiles) == max_iter <= n_tiles

\* assert max_iter >= n_tiles
InitAssert(max_iter, n_tiles) == max_iter >= n_tiles

RandomTiler_init ==
    /\ ctor = "new"
    /\ IF InitAssert(args.max_iter, args.n_tiles)
         THEN /\ tiler' = args
              /\ ctor' = "ok"
         ELSE /\ tiler' = NoTiler
              /\ ctor' = "error"
    /\ UNCHANGED <<modeVars, scaleVars, args, slideMask, envVars, cacheVars, genVars, driverVars,
                   cacheHist>>

(***************************************************************************)
(* histolab.util.lru_cache: a memo of at most maxsize entries, keyed by    *)
(* slide; a hit makes the entry the most recent, an insertion into a full  *)
(* memo drops the least recent.  The sequence is ordered least recent      *)
(* first.                                                                  *)
(***************************************************************************)
maxsize == CacheCap

InCache(c, k) == \E i \in 1..Len(c) : c[i].key = k

CacheIndex(c, k) == CHOOSE i \in 1..Len(c) : c[i].key = k

CacheGet(c, k) == c[CacheIndex(c, k)].val

CacheRemove(c, i) == SubSeq(c, 1, i - 1) \o SubSeq(c, i + 1, Len(c))

CacheTouch(c, k) ==
    LET i == CacheIndex(c, k) IN Append(CacheRemove(c, i), c[i])

\* the mutant: an insertion that never drops an entry
CacheInsertUnbounded(c, k, v) == Append(c, [key |-> k, val |-> v])

CacheInsert(c, k, v) ==
    LET e == [key |-> k, val |-> v]
    IN  IF Len(c) >= maxsize THEN Append(Tail(c), e) ELSE Append(c, e)

(***************************************************************************)
(* Masks.  A mask object is its identity (kind, slide, gen), its on-pixels *)
(* px and its array shape <<rows, columns>>.                               *)
(***************************************************************************)
\* Slide.biggest_tissue_box_mask: shaped (height, width) at level 0
biggest_tissue_box_mask(s, gen) ==
    [kind |-> "wsi", slide |-> s, gen |-> gen, px |-> slideMask[s],
     shape |-> <<dimensions[2], dimensions[1]>>]

\* np.ones(slide.dimensions[::-1], dtype="bool")
np_ones(s, gen) ==
    [kind |-> "wsi", slide |-> s, gen |-> gen, px |-> Pixels(dimensions),
     shape |-> <<dimensions[2], dimensions[1]>>]

\* histolab.util.resize_mask: a target pixel is on when at least half of the
\* source pixels it covers are on
resize_mask(mask, target_dimensions, gen) ==
    LET sw == mask.shape[2]
        sh == mask.shape[1]
        tw == target_dimensions[1]
        th == target_dimensions[2]
        Block(p) == {q \in Pixels(<<sw, sh>>) :
                        /\ (q[1] * tw) \div sw = p[1]
                        /\ (q[2] * th) \div sh = p[2]}
    IN  [kind |-> "lvl", slide |-> mask.slide, gen |-> gen,
         px |-> {p \in Pixels(target_dimensions) :
                    2 * Cardinality(Block(p) \cap mask.px)
                        >= Cardinality(Block(p))},
         shape |-> <<th, tw>>]

NoMask ==
    [kind |-> "none", slide |-> 0, gen |-> 0, px |-> {}, shape |-> <<0, 0>>]

(***************************************************************************)
(* RandomTiler.box_mask and RandomTiler.box_mask_lvl, each decorated with  *)
(* @lru_cache(maxsize=100).  A call is given the memos and the counters    *)
(* and returns them updated, with the mask it returns.                     *)
(***************************************************************************)
\* the mutant: box_mask with a memo that a hit does not refresh (first in,
\* first out)
box_mask_fifo(bm, nc, s) ==
    IF InCache(bm, s)
      THEN [bm |-> bm, nc |-> nc, ret |-> CacheGet(bm, s)]
      ELSE LET gen == nc[s] + 1
               m == IF tiler.check_tissue
                      THEN biggest_tissue_box_mask(s, gen)
                      ELSE np_ones(s, gen)
           IN  [bm |-> CacheInsert(bm, s, m),
                nc |-> [nc EXCEPT ![s] = gen], ret |-> m]

box_mask(bm, nc, s) ==
    IF InCache(bm, s)
      THEN [bm |-> CacheTouch(bm, s), nc |-> nc, ret |-> CacheGet(bm, s)]
      ELSE LET gen == nc[s] + 1
               m == IF tiler.check_tissue
                      THEN biggest_tissue_box_mask(s, gen)
                      ELSE np_ones(s, gen)
           IN  [bm |-> CacheInsert(bm, s, m),
                nc |-> [nc EXCEPT ![s] = gen], ret |-> m]

\* the mutant: the mask is resized at level 0 too
box_mask_lvl_body_resizing(bm, nc, nr, s) ==
    LET b == box_mask(bm, nc, s)
    IN  [bm |-> b.bm, nc |-> b.nc, nr |-> [nr EXCEPT ![s] = @ + 1],
         ret |-> resize_mask(b.ret, level_dimensions(tiler.level), nr[s] + 1)]

\* the body of box_mask_lvl, lines 137-144
box_mask_lvl_body(bm, nc, nr, s) ==
    LET b == box_mask(bm, nc, s)
    IN  IF tiler.level # 0
          THEN [bm |-> b.bm, nc |-> b.nc, nr |-> [nr EXCEPT ![s] = @ + 1],
                ret |-> resize_mask(b.ret, level_dimensions(tiler.level),
                                    nr[s] + 1)]
          ELSE [bm |-> b.bm, nc |-> b.nc, nr |-> nr, ret |-> b.ret]

\* the mutant: box_mask_lvl without its memo
box_mask_lvl_uncached(bm, lv, nc, nr, s) ==
    LET r == box_mask_lvl_body(bm, nc, nr, s)
    IN  [bm |-> r.bm, nc |-> r.nc, nr |-> r.nr, ret |-> r.ret,
         lv |-> IF InCache(lv, s) THEN CacheTouch(lv, s)
                                  ELSE CacheInsert(lv, s, r.ret)]

box_mask_lvl(bm, lv, nc, nr, s) ==
    IF InCache(lv, s)
      THEN [bm |-> bm, nc |-> nc, nr |-> nr, ret |-> CacheGet(lv, s),
            lv |-> CacheTouch(lv, s)]
      ELSE LET r == box_mask_lvl_body(bm, nc, nr, s)
           IN  [bm |-> r.bm, nc |-> r.nc, nr |-> r.nr, ret |-> r.ret,
                lv |-> CacheInsert(lv, s, r.ret)]

(***************************************************************************)
(* RandomTiler._random_tile_coordinates                                    *)
(***************************************************************************)
\* n / d rounded to the nearest integer (n >= 0, d > 0)
RoundDiv(n, d) == (2 * n + d) \div (2 * d)

\* the mutant: the integer division made before the multiplication
scale_coordinates_divfirst(reference_coords, reference_size, target_size) ==
    <<(reference_coords[1] \div reference_size[1]) * target_size[1],
      (reference_coords[2] \div reference_size[2]) * target_size[2],
      (reference_coords[3] \div reference_size[1]) * target_size[1],
      (reference_coords[4] \div reference_size[2]) * target_size[2]>>

\* histolab.util.scale_coordinates: each coordinate times target / reference
\* along its axis, rounded
scale_coordinates(reference_coords, reference_size, target_size) ==
    <<RoundDiv(reference_coords[1] * target_size[1], reference_size[1]),
      RoundDiv(reference_coords[2] * target_size[2], reference_size[2]),
      RoundDiv(reference_coords[3] * target_size[1], reference_size[1]),
      RoundDiv(reference_coords[4] * target_size[2], reference_size[2])>>

\* np.where(box_mask_lvl)[1]: the column index of every on-pixel
WhereCols(mask) == {p[1] : p \in mask.px}

\* the mutant: the rows taken from the column indices
WhereRowsFromCols(mask) == {p[1] : p \in mask.px}

\* np.where(box_mask_lvl)[0]: the row index of every on-pixel
WhereRows(mask) == {p[2] : p \in mask.px}

\* the mutant: the lower right corner one pixel short
TileCoordinatesShort(level, tile_size, x_ul_lvl, y_ul_lvl) ==
    scale_coordinates(
        <<x_ul_lvl, y_ul_lvl, x_ul_lvl + tile_size[1] - 1,
          y_ul_lvl + tile_size[2] - 1>>,
        level_dimensions(level), level_dimensions(0))

\* lines 177-191, given the two values np.random.choice returned
TileCoordinates(level, tile_size, x_ul_lvl, y_ul_lvl) ==
    scale_coordinates(
        <<x_ul_lvl, y_ul_lvl, x_ul_lvl + tile_size[1], y_ul_lvl + tile_size[2]>>,
        level_dimensions(level), level_dimensions(0))

AllBoxes ==
    {TileCoordinates(l, TileSize, p[1], p[2]) :
        l \in Levels, p \in UNION {Pixels(level_dimensions(k)) : k \in Levels}}

NoBox == <<-1, -1, -1, -1>>

\* the pairs the two np.random.choice calls can return at this position of the
\* stream
Draws(mask) ==
    IF rngPos < Len(stream)
      THEN {stream[rngPos + 1]}
      ELSE WhereCols(mask) \X WhereRows(mask)

\* what slide.extract_tile and the tile's has_enough_tissue answer for a box:
\* "invalid" (ValueError), "enough" or "scarce"
Answers(box) ==
    IF resp[box] = "unknown" THEN {"invalid", "enough", "scarce"}
                             ELSE {resp[box]}

\* the mutant: extract leaves numpy's generator where it is
np_random_seed_skipped(pos) == pos

\* np.random.seed(self.seed): the stream starts again
np_random_seed(pos) == 0

(***************************************************************************)
(* RandomTiler._random_tiles_generator                                     *)
(***************************************************************************)
\* the mutant: the discarded attempt stays counted
OnValueErrorCounted(it) == it

\* except ValueError: iteration -= 1
OnValueError(it) == it - 1

\* the mutant: the tissue check made whatever check_tissue says
AcceptsTissueOnly(check_tissue, answer) == answer = "enough"

\* not self.check_tissue or tile.has_enough_tissue()
Accepts(check_tissue, answer) == ~check_tissue \/ answer = "enough"

\* the mutant: max_iter = 0 is a budget like any other
StopByIterAlways(it, max_iter) == it > max_iter

\* self.max_iter and iteration > self.max_iter
StopByIter(it, max_iter) == max_iter # 0 /\ it > max_iter

\* the mutant: one more tile before the tile budget stops the loop
StopByTilesLate(valid, n_tiles) == valid > n_tiles + 1

\* valid_tile_counter > self.n_tiles
StopByTiles(valid, n_tiles) == valid > n_tiles

\* lines 233-237: where the loop goes after an iteration
AfterChecks(it, valid) ==
    IF StopByIter(it, tiler.max_iter) \/ StopByTiles(valid, tiler.n_tiles)
      THEN "done"
      ELSE "running"

\* line 176: the mask of this attempt, with the memos it leaves
Resolve == box_mask_lvl(cacheBM, cacheLvl, nComputed, nResized, TheSlide)

Resolved(r) ==
    /\ cacheBM' = r.bm
    /\ cacheLvl' = r.lv
    /\ nComputed' = r.nc
    /\ nResized' = r.nr

\* the generator's state moves on; in mode "live" the draws are not recorded
\* and only the parity of their number is kept
Drawn(pt) ==
    IF mode = "live"
      THEN /\ stream' = stream
           /\ rngPos' = (rngPos + 1) % 2
      ELSE /\ stream' = IF rngPos < Len(stream) THEN stream
                                                ELSE Append(stream, pt)
           /\ rngPos' = rngPos + 1

\* iteration += 1; with max_iter = 0 the counter is never read, and in mode
\* "live" it stays at the bound
Incremented(it) ==
    IF mode = "live" /\ tiler.max_iter = 0 /\ it >= MaxAttempts
      THEN it
      ELSE it + 1

\* np.random.choice of an empty array raises ValueError, outside the try
AttemptRaises ==
    /\ pc = "running"
    /\ LET r == Resolve
       IN  /\ r.ret.px = {}
           /\ Resolved(r)
    /\ iteration' = iteration + 1
    /\ pc' = "raised"
    /\ lastStep' = "raised"
    /\ UNCHANGED <<modeVars, scaleVars, tilerVars, envVars, valid_tile_counter, cur, discards,
                   extracted, nYielded, savedBoxes, driverVars, cacheHist>>

\* extract_tile raises ValueError: the attempt is discarded
AttemptDiscarded ==
    /\ pc = "running"
    /\ mode = "live" \/ discards < MaxDiscards
    /\ LET r == Resolve
       IN  /\ Resolved(r)
           /\ \E pt \in Draws(r.ret) :
                LET box == TileCoordinates(tiler.level, tiler.tile_size,
                                           pt[1], pt[2])
                IN  /\ "invalid" \in Answers(box)
                    /\ Drawn(pt)
                    /\ resp' = [resp EXCEPT ![box] = "invalid"]
    /\ iteration' = OnValueError(iteration + 1)
    /\ discards' = Count(discards, MaxDiscards)
    /\ pc' = "running"
    /\ lastStep' = "discarded"
    /\ UNCHANGED <<modeVars, scaleVars, tilerVars, valid_tile_counter, cur, extracted, nYielded,
                   savedBoxes, driverVars, cacheHist>>

\* the tile is extracted and fails the tissue check
AttemptRejected ==
    /\ pc = "running"
    /\ mode = "live" \/ extracted < MaxAttempts
    /\ LET r == Resolve
       IN  /\ Resolved(r)
           /\ \E pt \in Draws(r.ret) :
                LET box == TileCoordinates(tiler.level, tiler.tile_size,
                                           pt[1], pt[2])
                IN  \E a \in Answers(box) \ {"invalid"} :
                      /\ ~Accepts(tiler.check_tissue, a)
                      /\ Drawn(pt)
                      /\ resp' = [resp EXCEPT ![box] = a]
    /\ iteration' = Incremented(iteration)
    /\ extracted' = Count(extracted, MaxAttempts)
    /\ pc' = AfterChecks(iteration + 1, valid_tile_counter)
    /\ lastStep' = "rejected"
    /\ UNCHANGED <<modeVars, scaleVars, tilerVars, valid_tile_counter, cur, discards, nYielded,
                   savedBoxes, driverVars, cacheHist>>

\* the tile is extracted and yielded: the generator is suspended at line 230
AttemptYields ==
    /\ pc = "running"
    /\ mode = "live" \/ extracted < MaxAttempts
    /\ LET r == Resolve
       IN  /\ Resolved(r)
           /\ \E pt \in Draws(r.ret) :
                LET box == TileCoordinates(tiler.level, tiler.tile_size,
                                           pt[1], pt[2])
                IN  \E a \in Answers(box) \ {"invalid"} :
                      /\ Accepts(tiler.check_tissue, a)
                      /\ Drawn(pt)
                      /\ resp' = [resp EXCEPT ![box] = a]
                      /\ cur' = box
                      /\ savedBoxes' = Append(savedBoxes, box)
    /\ iteration' = Incremented(iteration)
    /\ extracted' = Count(extracted, MaxAttempts)
    /\ nYielded' = nYielded + 1
    /\ pc' = "yielded"
    /\ lastStep' = "yielded"
    /\ UNCHANGED <<modeVars, scaleVars, tilerVars, valid_tile_counter, discards, driverVars,
                   cacheHist>>

\* the generator is resumed after the yield: lines 231-237
Resume ==
    /\ pc = "resume"
    /\ valid_tile_counter' = valid_tile_counter + 1
    /\ pc' = AfterChecks(iteration, valid_tile_counter + 1)
    /\ lastStep' = "resumed"
    /\ UNCHANGED <<modeVars, scaleVars, tilerVars, envVars, cacheVars, iteration, cur, discards,
                   extracted, nYielded, savedBoxes, driverVars, cacheHist>>

(***************************************************************************)
(* RandomTiler.extract and RandomTiler._tile_filename                      *)
(***************************************************************************)
\* the mutant: the sequence number starts at 1
TileFilenameFromOne(tile_wsi_coords, tiles_counter_) ==
    <<tiler.prefix, "tile_", tiles_counter_ + 1, "_level", tiler.level, "_",
      tile_wsi_coords[1], "-", tile_wsi_coords[2], "-",
      tile_wsi_coords[3], "-", tile_wsi_coords[4], tiler.suffix>>

\* the pieces of the f-string, in order
TileFilename(tile_wsi_coords, tiles_counter_) ==
    <<tiler.prefix, "tile_", tiles_counter_, "_level", tiler.level, "_",
      tile_wsi_coords[1], "-", tile_wsi_coords[2], "-",
      tile_wsi_coords[3], "-", tile_wsi_coords[4], tiler.suffix>>

\* extract is called: lines 152-156
Extract ==
    /\ ctor = "ok"
    /\ pc \in {"idle", "returned", "raised"}
    /\ run < MaxRuns
    /\ rngPos' = np_random_seed(rngPos)
    /\ run' = run + 1
    /\ prevBoxes' = savedBoxes
    /\ tiles_counter' = 0
    /\ enum_next' = 0
    /\ saved' = <<>>
    /\ printed' = -1
    /\ iteration' = 0
    /\ valid_tile_counter' = 0
    /\ cur' = NoBox
    /\ discards' = 0
    /\ extracted' = 0
    /\ nYielded' = 0
    /\ savedBoxes' = <<>>
    /\ lastStep' = "start"
    /\ pc' = "running"
    /\ UNCHANGED <<modeVars, scaleVars, tilerVars, resp, stream, cacheVars, cacheHist>>

\* the body of the for loop, lines 157-160, for the tile just yielded
DriverSave ==
    /\ pc = "yielded"
    /\ tiles_counter' = enum_next
    /\ enum_next' = enum_next + 1
    /\ saved' = Append(saved, TileFilename(cur, enum_next))
    /\ pc' = "resume"
    /\ UNCHANGED <<modeVars, scaleVars, tilerVars, envVars, cacheVars, iteration,
                   valid_tile_counter, cur, discards, extracted, nYielded,
                   savedBoxes, lastStep, printed, run, prevBoxes, cacheHist>>

\* the generator is exhausted: line 161
Finish ==
    /\ pc = "done"
    /\ printed' = tiles_counter
    /\ pc' = "returned"
    /\ UNCHANGED <<modeVars, scaleVars, tilerVars, envVars, cacheVars, iteration,
                   valid_tile_counter, cur, discards, extracted, nYielded,
                   savedBoxes, lastStep, enum_next, tiles_counter, saved, run,
                   prevBoxes, cacheHist>>

(***************************************************************************)
(* Direct calls of the two resolvers, over several slides.                 *)
(***************************************************************************)
CallBoxMask(s) ==
    /\ ctor = "ok"
    /\ clock < MaxCalls
    /\ LET r == box_mask(cacheBM, nComputed, s)
       IN  /\ cacheBM' = r.bm
           /\ nComputed' = r.nc
           /\ lastCall' =
                [op |-> "box_mask", slide |-> s,
                 hit |-> InCache(cacheBM, s),
                 cached |-> IF InCache(cacheBM, s) THEN CacheGet(cacheBM, s)
                                                   ELSE NoMask,
                 ret |-> r.ret,
                 computed |-> r.nc # nComputed,
                 resized |-> FALSE]
    /\ clock' = clock + 1
    /\ lastAccessBM' = [lastAccessBM EXCEPT ![s] = clock + 1]
    /\ UNCHANGED <<modeVars, scaleVars, tilerVars, envVars, cacheLvl, nResized, genVars,
                   driverVars, lastAccessLvl>>

CallBoxMaskLvl(s) ==
    /\ ctor = "ok"
    /\ clock < MaxCalls
    /\ LET r == box_mask_lvl(cacheBM, cacheLvl, nComputed, nResized, s)
       IN  /\ Resolved(r)
           /\ lastCall' =
                [op |-> "box_mask_lvl", slide |-> s,
                 hit |-> InCache(cacheLvl, s),
                 cached |-> IF InCache(cacheLvl, s) THEN CacheGet(cacheLvl, s)
                                                    ELSE NoMask,
                 ret |-> r.ret,
                 computed |-> r.nc # nComputed,
                 resized |-> r.nr # nResized]
    /\ clock' = clock + 1
    /\ lastAccessLvl' = [lastAccessLvl EXCEPT ![s] = clock + 1]
    \* a miss calls self.box_mask(slide), line 137
    /\ lastAccessBM' = IF InCache(cacheLvl, s)
                         THEN lastAccessBM
                         ELSE [lastAccessBM EXCEPT ![s] = clock + 1]
    /\ UNCHANGED <<modeVars, scaleVars, tilerVars, envVars, genVars, driverVars>>

(***************************************************************************)
(* The coordinate transform on its own: a tile-sized box at a sampled      *)
(* corner is scaled from dimensions ref to dimensions tgt and back, and    *)
(* the same corner is turned into a level-0 box by a tiler of level 0.     *)
(***************************************************************************)
TileSizes == {<<1, 1>>, <<2, 1>>, <<1, 3>>}

Dims == (1..MaxDim) \X (1..MaxDim)

NoCoords == <<-1, -1, -1, -1>>

ScaleInputs ==
    [phase : {"in"}, x : 0..MaxCoord, y : 0..MaxCoord, tile_size : TileSizes,
     ref : Dims, tgt : Dims, out : {NoCoords}, back : {NoCoords},
     tile0 : {NoCoords}]

NoScale ==
    [phase |-> "none", x |-> 0, y |-> 0, tile_size |-> <<0, 0>>,
     ref |-> <<1, 1>>, tgt |-> <<1, 1>>, out |-> NoCoords, back |-> NoCoords,
     tile0 |-> NoCoords]

\* the box of lines 182-186 at the level it was sampled
BoxLvl(sc) == <<sc.x, sc.y, sc.x + sc.tile_size[1], sc.y + sc.tile_size[2]>>

\* reference -> target, and what a tiler of level 0 makes of the same corner
ScaleForward ==
    /\ scale.phase = "in"
    /\ scale' = [scale EXCEPT
                   !.phase = "out",
                   !.out = scale_coordinates(BoxLvl(scale), scale.ref, scale.tgt),
                   !.tile0 = TileCoordinates(0, scale.tile_size, scale.x,
                                             scale.y)]
    /\ UNCHANGED <<modeVars, tilerVars, envVars, cacheVars, genVars,
                   driverVars, cacheHist>>

\* target -> reference
ScaleBack ==
    /\ scale.phase = "out"
    /\ scale' = [scale EXCEPT
                   !.phase = "back",
                   !.back = scale_coordinates(scale.out, scale.tgt, scale.ref)]
    /\ UNCHANGED <<modeVars, tilerVars, envVars, cacheVars, genVars,
                   driverVars, cacheHist>>

(***************************************************************************)
(* Specifications.                                                         *)
(***************************************************************************)
InitCommon ==
    /\ resp = [b \in AllBoxes |-> "unknown"]
    /\ stream = <<>>
    /\ rngPos = 0
    /\ cacheBM = <<>>
    /\ cacheLvl = <<>>
    /\ nComputed = [s \in Slides |-> 0]
    /\ nResized = [s \in Slides |-> 0]
    /\ pc = "idle"
    /\ iteration = 0
    /\ valid_tile_counter = 0
    /\ cur = NoBox
    /\ enum_next = 0
    /\ tiles_counter = 0
    /\ saved = <<>>
    /\ printed = -1
    /\ run = 0
    /\ prevBoxes = <<>>
    /\ discards = 0
    /\ extracted = 0
    /\ nYielded = 0
    /\ savedBoxes = <<>>
    /\ lastStep = "none"
    /\ clock = 0
    /\ lastAccessBM = [s \in Slides |-> 0]
    /\ lastAccessLvl = [s \in Slides |-> 0]
    /\ lastCall = [op |-> "none", slide |-> 0, hit |-> FALSE,
                   cached |-> NoMask, ret |-> NoMask, computed |-> FALSE,
                   resized |-> FALSE]

\* a tiler is constructed and extract is called on one slide, repeatedly.
\* With check_tissue false the slide's tissue mask is never read (line 113):
\* one mask stands for all of them.
Init ==
    /\ args \in ArgSets
    /\ ctor = "new"
    /\ tiler = NoTiler
    /\ slideMask \in {[s \in Slides |-> m] :
                        m \in IF args.check_tissue THEN TissueMasks
                                                   ELSE {{<<0, 0>>}}}
    /\ scale = NoScale
    /\ mode = "trace"
    /\ InitCommon

Next ==
    \/ RandomTiler_init
    \/ Extract
    \/ AttemptRaises
    \/ AttemptDiscarded
    \/ AttemptRejected
    \/ AttemptYields
    \/ DriverSave
    \/ Resume
    \/ Finish

Spec == Init /\ [][Next]_vars

\* the same program, run without bound: the interpreter keeps executing the
\* generator and the driver, so a step that can be taken is taken
InitLive ==
    /\ args \in ArgSets
    /\ ctor = "new"
    /\ tiler = NoTiler
    /\ slideMask \in {[s \in Slides |-> m] :
                        m \in IF args.check_tissue THEN TissueMasks
                                                   ELSE {{<<0, 0>>}}}
    /\ scale = NoScale
    /\ mode = "live"
    /\ InitCommon

SpecLive == InitLive /\ [][Next]_vars /\ WF_vars(Next)

\* a constructed tiler's resolvers are called directly, for any slides
InitCache ==
    /\ args \in {a \in ArgSets : a.n_tiles = 0 /\ a.max_iter = 0}
    /\ ctor = "ok"
    /\ tiler = args
    /\ slideMask = [s \in Slides |-> {<<0, 0>>}]
    /\ scale = NoScale
    /\ mode = "trace"
    /\ InitCommon

NextCache ==
    \/ \E s \in Slides : CallBoxMask(s)
    \/ \E s \in Slides : CallBoxMaskLvl(s)

SpecCache == InitCache /\ [][NextCache]_vars

\* scale_coordinates is applied to any box, between any two dimensions
InitScale ==
    /\ args \in {a \in ArgSets : a.n_tiles = 0 /\ a.max_iter = 0 /\ a.level = 0
                                    /\ a.check_tissue}
    /\ ctor = "new"
    /\ tiler = NoTiler
    /\ slideMask = [s \in Slides |-> {<<0, 0>>}]
    /\ scale \in ScaleInputs
    /\ mode = "trace"
    /\ InitCommon

NextScale ==
    \/ ScaleForward
    \/ ScaleBack

SpecScale == InitScale /\ [][NextScale]_vars

(***************************************************************************)
(* The claims.                                                             *)
(***************************************************************************)
\* the mask the attempts of this extract call sample from, once resolved
TargetMaskEmpty ==
    /\ InCache(cacheLvl, TheSlide)
    /\ CacheGet(cacheLvl, TheSlide).px = {}

IsPrefix(s, t) == Len(s) <= Len(t) /\ SubSeq(t, 1, Len(s)) = s

Min(a, b) == IF a <= b THEN a ELSE b

\* C1: in every run of the generator of a tiler with max_iter >= n_tiles, the
\* number of tiles yielded never exceeds n_tiles.  (Stated for the tilers
\* asked for at least one tile; n_tiles = 0 yields one tile too.)
C1_YieldedAtMostNTiles ==
    (ctor = "ok" /\ tiler.n_tiles >= 1) => nYielded <= tiler.n_tiles

\* C2: in every run of the generator, the number of attempts whose extraction
\* succeeded (accepted or rejected by the tissue check) never exceeds max_iter.
\* (Stated for the tilers with max_iter >= 1; with max_iter = 0 the attempt
\* budget is not checked at all.)
C2_AttemptsAtMostMaxIter ==
    (ctor = "ok" /\ tiler.max_iter >= 1) => extracted <= tiler.max_iter

C4_ConstructionChecked ==
    /\ ctor = "new" => tiler = NoTiler
    /\ ctor = "error" =>
          /\ args.max_iter < args.n_tiles
          /\ tiler = NoTiler
          /\ run = 0
          /\ pc = "idle"
    /\ ctor = "ok" =>
          /\ args.max_iter >= args.n_tiles
          /\ tiler = args

C4_Witness ==
    /\ ctor = "error"
    /\ args.max_iter < args.n_tiles

\* C5: an attempt whose extract_tile signals an invalid region yields nothing,
\* leaves the attempt counter and the accepted-tile counter as they were, is
\* not surfaced as an error, and leaves the loop at its top, where the next
\* step is a fresh sampling attempt.
C5_InvalidRegionDiscarded ==
    [][discards' = discards + 1 =>
          /\ iteration' = iteration
          /\ valid_tile_counter' = valid_tile_counter
          /\ nYielded' = nYielded
          /\ savedBoxes' = savedBoxes
          /\ saved' = saved
          /\ extracted' = extracted
          /\ pc' = "running"]_vars

C5_Witness ==
    /\ lastStep = "discarded"
    /\ discards = 1
    /\ iteration = 1
    /\ pc = "running"

\* C6: an extraction on a slide whose target-level mask has no true pixel
\* raises no error (it completes, with zero tiles saved and reported).
C6_EmptyMaskCompletes ==
    TargetMaskEmpty => pc # "raised"

\* C7: with a fixed seed, a second extract call of the same tiler on the same
\* slide accepts the same level-0 boxes in the same order as the call before.
C7_SameSeedSameBoxes ==
    run >= 2 =>
        /\ IsPrefix(savedBoxes, prevBoxes)
        /\ pc \in {"returned", "raised"} => savedBoxes = prevBoxes

C7_Witness ==
    /\ run = 2
    /\ pc = "returned"
    /\ Len(savedBoxes) = 2
    /\ savedBoxes[1] # savedBoxes[2]

\* C8: the k-th tile saved (k = 0, 1, ...) gets the filename
\* {prefix}tile_{k}_level{level}_{x_ul}-{y_ul}-{x_br}-{y_br}{suffix} with the
\* level-0 box of the k-th tile yielded: tiles are saved in the order they are
\* yielded, numbered from 0 without gaps, whatever was discarded or rejected
\* in between.
C8_SequenceNumbers ==
    /\ Len(saved) \in {nYielded, nYielded - 1}
    /\ pc # "yielded" => Len(saved) = nYielded
    /\ \A k \in 1..Len(saved) :
          saved[k] = <<tiler.prefix, "tile_", k - 1, "_level", tiler.level, "_",
                       savedBoxes[k][1], "-", savedBoxes[k][2], "-",
                       savedBoxes[k][3], "-", savedBoxes[k][4], tiler.suffix>>

C8_Witness ==
    /\ Len(saved) = 2
    /\ discards >= 1
    /\ extracted > nYielded
    /\ saved[2][3] = 1

\* C9: a box_mask or box_mask_lvl call for a slide whose entry is in the cache
\* returns the mask cached for it, without computing the slide's mask and
\* without resizing.
C9_HitReturnsCached ==
    lastCall.hit =>
        /\ ~lastCall.computed
        /\ ~lastCall.resized
        /\ lastCall.ret = lastCall.cached

C9_Witness ==
    /\ lastCall.hit
    /\ lastCall.op = "box_mask_lvl"
    /\ tiler.level # 0
    /\ Len(cacheLvl) = maxsize

\* C10: each cache holds the most recently accessed slides: a slide that was
\* accessed and is no longer cached was accessed before every slide that is
\* cached (the one evicted at capacity is the least recently accessed), a call
\* for a slide that is not cached recomputes its mask, and the other accessed
\* slides stay cached up to the capacity.
C10_LeastRecentEvicted ==
    /\ \A k, u \in Slides :
          (InCache(cacheBM, k) /\ ~InCache(cacheBM, u)) =>
              lastAccessBM[u] < lastAccessBM[k]
    /\ \A k, u \in Slides :
          (InCache(cacheLvl, k) /\ ~InCache(cacheLvl, u)) =>
              lastAccessLvl[u] < lastAccessLvl[k]
    /\ Len(cacheBM) =
          Min(maxsize, Cardinality({s \in Slides : lastAccessBM[s] > 0}))
    /\ Len(cacheLvl) =
          Min(maxsize, Cardinality({s \in Slides : lastAccessLvl[s] > 0}))
    /\ (lastCall.op = "box_mask" /\ ~lastCall.hit) => lastCall.computed

\* a slide's mask was recomputed after its eviction, while a slide accessed
\* before the evicting insertion is still cached
C10_Witness ==
    /\ lastCall.op = "box_mask"
    /\ ~lastCall.hit
    /\ lastCall.computed
    /\ nComputed[lastCall.slide] = 2
    /\ \E u \in Slides : lastAccessBM[u] > 0 /\ ~InCache(cacheBM, u)

Abs(a) == IF a >= 0 THEN a ELSE -a

\* C11: the coordinate transform is the identity when reference and target
\* dimensions are equal, and a tiler of level 0 turns the sampled corner
\* (x, y) into exactly the box (x, y, x + tile_width, y + tile_height).
C11_IdentityAtEqualDims ==
    scale.phase \in {"out", "back"} =>
        /\ scale.ref = scale.tgt => scale.out = BoxLvl(scale)
        /\ scale.tile0 = <<scale.x, scale.y, scale.x + scale.tile_size[1],
                           scale.y + scale.tile_size[2]>>

C11_Witness ==
    /\ scale.phase = "out"
    /\ scale.ref = scale.tgt
    /\ scale.ref = <<3, 2>>
    /\ scale.x = 3
    /\ scale.tile_size = <<1, 3>>
    /\ scale.out = <<3, scale.y, 4, scale.y + 3>>

C13_ExtractEnds ==
    (pc = "running" /\ tiler.max_iter >= 1) ~> (pc \in {"returned", "raised"})

\* the mask the attempts sample from
TargetMask == CacheGet(cacheLvl, TheSlide)

\* the on-pixels are all the combinations of an on-column and an on-row
IsBox(mask) == mask.px = WhereCols(mask) \X WhereRows(mask)

\* C14: the corner (x, y) drawn by every sampling attempt is a true pixel of
\* the target-level mask, whatever the shape of the mask.
C14_SampledPixelIsOn ==
    (mode = "trace" /\ InCache(cacheLvl, TheSlide)) =>
        \A i \in 1..Len(stream) : stream[i] \in TargetMask.px

\* C14 as amended: the corner drawn is a true pixel of the mask when the true
\* pixels form a box (as a tissue box mask and the all-true mask do); for any
\* mask it lies within the columns and rows that hold a true pixel, so at
\* level 0 every yielded box has its upper left corner there.
C14_SampledPixelInBox ==
    (mode = "trace" /\ stream # <<>> /\ InCache(cacheLvl, TheSlide)) =>
        LET mask == TargetMask
            cols == {p[1] : p \in mask.px}
            rows == {p[2] : p \in mask.px}
            box == IsBox(mask)
        IN  /\ \A i \in 1..Len(stream) :
                  /\ stream[i][1] \in cols
                  /\ stream[i][2] \in rows
                  /\ box => stream[i] \in mask.px
            /\ tiler.level = 0 =>
                  \A k \in 1..Len(savedBoxes) :
                      /\ savedBoxes[k][1] \in cols
                      /\ savedBoxes[k][2] \in rows

C14_Witness ==
    /\ mode = "trace"
    /\ InCache(cacheLvl, TheSlide)
    /\ IsBox(TargetMask)
    /\ Cardinality(TargetMask.px) = 4
    /\ Len(stream) >= 2
    /\ stream[1] # stream[2]
    /\ Len(savedBoxes) >= 1

LastBox ==
    TileCoordinates(tiler.level, tiler.tile_size, stream[rngPos][1],
                    stream[rngPos][2])

LastAnswer == resp[LastBox]

\* C15: an attempt yields its tile if and only if the extraction succeeded
\* and (check_tissue is false or the tile has enough tissue), and every yield
\* adds exactly one to the accepted-tile counter once the generator resumes.
C15_YieldIffAccepted ==
    mode = "trace" =>
        /\ lastStep \in {"discarded", "rejected", "yielded"} =>
              LET box == LastBox
                  answer == resp[box]
              IN  /\ lastStep = "yielded" <=>
                        /\ answer # "invalid"
                        /\ ~tiler.check_tissue \/ answer = "enough"
                  /\ lastStep = "discarded" <=> answer = "invalid"
                  /\ lastStep = "yielded" => cur = box
        /\ pc \in {"yielded", "resume"} => valid_tile_counter = nYielded - 1
        /\ pc \in {"running", "done", "returned", "raised"} =>
              valid_tile_counter = nYielded

\* a tile without enough tissue is rejected after a tile was yielded and
\* counted
C15_Witness ==
    /\ mode = "trace"
    /\ tiler.check_tissue
    /\ lastStep = "rejected"
    /\ LastAnswer = "scarce"
    /\ nYielded = 1
    /\ valid_tile_counter = 1
    /\ discards = 1

\* C16: with check_tissue false the mask box_mask_lvl returns is all true
\* and shaped (height, width) of level_dimensions(level); with level 0 it is
\* the mask object of box_mask, and nothing is resized.
C16_TargetMaskOfLevel ==
    lastCall.op = "box_mask_lvl" =>
        /\ ~tiler.check_tissue =>
              /\ lastCall.ret.px = Pixels(level_dimensions(tiler.level))
              /\ lastCall.ret.shape = <<level_dimensions(tiler.level)[2],
                                        level_dimensions(tiler.level)[1]>>
        /\ tiler.level = 0 =>
              /\ ~lastCall.resized
              /\ nResized[lastCall.slide] = 0
              /\ lastCall.ret.kind = "wsi"
              /\ ~lastCall.hit => lastCall.ret = CacheGet(cacheBM, lastCall.slide)
        /\ (tiler.level # 0 /\ ~lastCall.hit) => lastCall.resized

\* an all-true mask of the non-square level was returned
C16_Witness ==
    /\ lastCall.op = "box_mask_lvl"
    /\ ~lastCall.hit
    /\ ~tiler.check_tissue
    /\ tiler.level = 1
    /\ lastCall.ret.shape = <<1, 2>>
    /\ Cardinality(lastCall.ret.px) = 2

\* C17: the number printed by the final message of extract is the number of
\* tiles the call saved.
C17_PrintedIsSavedCount ==
    pc = "returned" => printed = Len(saved)

\* C18: each memo holds at most maxsize entries and at most one per slide.
C18_CacheBounded ==
    /\ Len(cacheBM) <= maxsize
    /\ Len(cacheLvl) <= maxsize
    /\ \A i, j \in 1..Len(cacheBM) :
          cacheBM[i].key = cacheBM[j].key => i = j
    /\ \A i, j \in 1..Len(cacheLvl) :
          cacheLvl[i].key = cacheLvl[j].key => i = j

\* both memos are full, every slide was asked for, and the last call was a hit
C18_Witness ==
    /\ Len(cacheBM) = maxsize
    /\ Len(cacheLvl) = maxsize
    /\ \A s \in Slides : lastAccessBM[s] > 0 /\ lastAccessLvl[s] > 0
    /\ lastCall.hit

====
